---- MODULE Spec2Model ----
(***************************************************************************)
(* Model of pingdom.py: the Pingdom API client (get_checks, create_check,  *)
(* update_check, find_matching_checks), the YAML validation and the        *)
(* reconciliation run of process_configuration_yaml, driven by __main__.   *)
(*                                                                         *)
(* Python values are tagged records [ty, v]: a str is the sequence of its  *)
(* characters, a list a sequence of values, a dict a function from key     *)
(* names to values, an int an integer.  JSON objects received from the     *)
(* remote API are plain records whose DOMAIN is the set of keys present.   *)
(***************************************************************************)
EXTENDS Integers, Sequences, FiniteSets, TLC

\* ------------------------------------------------------------------ bounds

MaxChecks == 2
MaxRemote == 2

\* ------------------------------------------------------------ Python values

Str(s) == [ty |-> "str", v |-> s]
IntV(n) == [ty |-> "int", v |-> n]
List(s) == [ty |-> "list", v |-> s]
Dict(f) == [ty |-> "dict", v |-> f]

EmptyMap == [k \in {} |-> k]

Has(d, k) == k \in DOMAIN d.v
Put(d, k, x) == Dict([kk \in (DOMAIN d.v) \cup {k} |-> IF kk = k THEN x ELSE d.v[kk]])
Del(d, k) == Dict([kk \in (DOMAIN d.v) \ {k} |-> d.v[kk]])

\* ------------------------------------------------------------------ strings

ToLower == [A |-> "a", B |-> "b", C |-> "c", E |-> "e", M |-> "m", O |-> "o", X |-> "x"]
LowerChar(c) == IF c \in DOMAIN ToLower THEN ToLower[c] ELSE c
Lower(s) == [n \in 1..Len(s) |-> LowerChar(s[n])]

Digit == <<"0", "1", "2", "3", "4", "5", "6", "7", "8", "9">>
RECURSIVE NatToStr(_)
NatToStr(n) == IF n < 10 THEN <<Digit[n + 1]>> ELSE NatToStr(n \div 10) \o <<Digit[(n % 10) + 1]>>
IntToStr(n) == IF n < 0 THEN <<"-">> \o NatToStr(-n) ELSE NatToStr(n)

\* '{x}'.format(x=value) and str(value), for the str and int values of a document
Format(x) == IF x.ty = "int" THEN IntToStr(x.v) ELSE x.v

RECURSIVE RStrip(_, _)
RStrip(s, c) == IF Len(s) > 0 /\ s[Len(s)] = c THEN RStrip(SubSeq(s, 1, Len(s) - 1), c) ELSE s

\* s.split(c)
RECURSIVE Split(_, _)
Split(s, c) ==
    IF \E n \in 1..Len(s) : s[n] = c
    THEN LET n == CHOOSE m \in 1..Len(s) : s[m] = c /\ \A q \in 1..(m - 1) : s[q] # c
         IN <<SubSeq(s, 1, n - 1)>> \o Split(SubSeq(s, n + 1, Len(s)), c)
    ELSE <<s>>

Range(s) == {s[n] : n \in 1..Len(s)}

\* --------------------------------------------------------- program constants

\* the literal 'pingdom-checks' and the list ['1.0'] of validate_configuration_yaml
GITOPS_TYPE == <<"p", "i", "n", "g", "d", "o", "m", "-", "c", "h", "e", "c", "k", "s">>
GITOPS_VERSIONS == {<<"1", ".", "0">>}

HTTP_OK == 200

\* ------------------------------------------------------------ default merge

\* default is None when the document has no pingdom.default
NoneV == [ty |-> "none", v |-> 0]

\* mutant: the value of the default replaces the value of the check
MergeDefaultOverrides(check, default) ==
    IF default.ty = "none" THEN check
    ELSE Dict([k \in (DOMAIN check.v) \cup (DOMAIN default.v) |->
                 IF k \in DOMAIN default.v THEN default.v[k] ELSE check.v[k]])

\* for key, value in default.items(): if key not in check: check[key] = value
MergeDefault(check, default) ==
    IF default.ty = "none" THEN check
    ELSE Dict([k \in (DOMAIN check.v) \cup (DOMAIN default.v) |->
                 IF k \in DOMAIN check.v THEN check.v[k] ELSE default.v[k]])

DefaultOf(config_pingdom) ==
    IF Has(config_pingdom, "default") THEN config_pingdom.v["default"] ELSE NoneV

\* --------------------------------------------------------------- validation

\* mutant: the message names the first parameter of the list, not the absent one
FirstMissingNamesFirst(params, d) ==
    IF \A n \in 1..Len(params) : Has(d, params[n]) THEN "" ELSE params[1]

\* the first parameter of params (in order) absent from dict d, or "" when none is
FirstMissing(params, d) ==
    LET bad == {n \in 1..Len(params) : ~Has(d, params[n])}
    IN IF bad = {} THEN "" ELSE params[CHOOSE n \in bad : \A m \in bad : n <= m]

\* for parameter in ['name', 'host', 'type']: presence, then str type
MandatoryError(check) ==
    LET params == <<"name", "host", "type">>
        bad == {n \in 1..3 : ~Has(check, params[n]) \/ check.v[params[n]].ty # "str"}
        n == CHOOSE m \in bad : \A q \in bad : m <= q
    IN IF bad = {} THEN ""
       ELSE IF ~Has(check, params[n])
            THEN "Configuration Error: Could not locate mandatory " \o params[n] \o " value in check"
            ELSE "Configuration Error: Invalid data type " \o params[n] \o " in check, expected string value"

\* team_key in teams: the tables are keyed by the names of the document
InTable(key, table) == key.ty = "str" /\ key.v \in DOMAIN table.v

\* the checks of one list of names against its table
NamesError(check, field, table) ==
    IF ~Has(check, field) THEN ""
    ELSE IF check.v[field].ty # "list"
         THEN "Configuration Error: Invalid data type " \o field \o " in check, expected YAML list"
         ELSE IF \E n \in 1..Len(check.v[field].v) : ~InTable(check.v[field].v[n], table)
              THEN "Configuration Error: Unknown " \o field \o " name specified in check"
              ELSE ""

\* the body of the loop over the checks, after default merging; "" when the check passes
ValidateCheck(check, teams, integrations) ==
    IF MandatoryError(check) # "" THEN MandatoryError(check)
    ELSE IF NamesError(check, "teamids", teams) # "" THEN NamesError(check, "teamids", teams)
    ELSE NamesError(check, "integrationids", integrations)

\* for check in config_pingdom_checks: merge the defaults in place, then validate;
\* stops at the first check that fails
RECURSIVE ValidateChecks(_, _, _, _, _)
ValidateChecks(checks, n, default, teams, integrations) ==
    IF n > Len(checks) THEN [msg |-> "", checks |-> checks]
    ELSE LET check == MergeDefault(checks[n], default)
             merged == [checks EXCEPT ![n] = check]
             msg == ValidateCheck(check, teams, integrations)
         IN IF msg # "" THEN [msg |-> msg, checks |-> merged]
            ELSE ValidateChecks(merged, n + 1, default, teams, integrations)

Fail(msg, configuration) == [ok |-> FALSE, msg |-> msg, configuration |-> configuration]
Pass(configuration) == [ok |-> TRUE, msg |-> "", configuration |-> configuration]

\* the table built from a teams/integrations object: an error when a value is no int
TableError(config_pingdom, field) ==
    IF ~Has(config_pingdom, field) THEN ""
    ELSE IF config_pingdom.v[field].ty # "dict"
         THEN "Configuration Error: Invalid pingdom." \o field \o " tag type, expected YAML object"
         ELSE IF \E k \in DOMAIN config_pingdom.v[field].v : config_pingdom.v[field].v[k].ty # "int"
              THEN "Configuration Error: Invalid pingdom." \o field \o " ID type, expected integer"
              ELSE ""

\* validate_configuration_yaml: the result, and the document as the default merging
\* of the loop over the checks leaves it
ValidateConfigurationYaml(configuration) ==
    IF ~Has(configuration, "gitops")
    THEN Fail("Unexpected file type: Could not locate required gitops tag", configuration)
    ELSE LET config_gitops == configuration.v["gitops"] IN
    IF config_gitops.ty # "dict"
    THEN Fail("Configuration Error: Invalid gitops tag type, expected YAML object", configuration)
    ELSE IF FirstMissing(<<"type", "version">>, config_gitops) # ""
    THEN Fail("Configuration Error: Could not locate required gitops."
              \o FirstMissing(<<"type", "version">>, config_gitops) \o " tag", configuration)
    ELSE IF ~(config_gitops.v["type"].ty = "str" /\ config_gitops.v["type"].v = GITOPS_TYPE)
    THEN Fail("Unexpected file type: The supplied file did not contain expected gitops.type value", configuration)
    ELSE IF Format(config_gitops.v["version"]) \notin GITOPS_VERSIONS
    THEN Fail("Unexpected file type: The file version was not recognized", configuration)
    ELSE IF ~Has(configuration, "pingdom")
    THEN Fail("Configuration Error: Could not locate required pingdom tag", configuration)
    ELSE LET config_pingdom == configuration.v["pingdom"] IN
    IF config_pingdom.ty # "dict"
    THEN Fail("Configuration Error: Invalid pingdom tag type, expected YAML object", configuration)
    ELSE IF FirstMissing(<<"tag", "checks", "teams", "integrations">>, config_pingdom) # ""
    THEN Fail("Configuration Error: Could not locate required pingdom."
              \o FirstMissing(<<"tag", "checks", "teams", "integrations">>, config_pingdom) \o " tag", configuration)
    ELSE IF TableError(config_pingdom, "teams") # ""
    THEN Fail(TableError(config_pingdom, "teams"), configuration)
    ELSE IF TableError(config_pingdom, "integrations") # ""
    THEN Fail(TableError(config_pingdom, "integrations"), configuration)
    ELSE IF config_pingdom.v["checks"].ty # "list"
    THEN Fail("Configuration Error: Invalid pingdom.checks tag type, expected YAML list", configuration)
    ELSE IF Has(config_pingdom, "default") /\ config_pingdom.v["default"].ty # "dict"
    THEN Fail("Configuration Error: Invalid pingdom.default item type, expected YAML object", configuration)
    ELSE LET r == ValidateChecks(config_pingdom.v["checks"].v, 1, DefaultOf(config_pingdom),
                                 config_pingdom.v["teams"], config_pingdom.v["integrations"])
             after == Put(configuration, "pingdom", Put(config_pingdom, "checks", List(r.checks)))
         IN IF r.msg # "" THEN Fail(r.msg, after) ELSE Pass(after)

\* ------------------------------------------------------ identity resolution

\* the table of the document a list of names is resolved against
field_table(field) == IF field = "teamids" THEN "teams" ELSE "integrations"

\* mutant: the items are appended without the comma
RECURSIVE CsvAppendUnseparated(_, _)
CsvAppendUnseparated(csv, items) ==
    IF items = <<>> THEN csv ELSE CsvAppendUnseparated(csv \o Head(items), Tail(items))

\* the loop  csv += '{x},'.format(x=...)  over a list of already formatted items
RECURSIVE CsvAppend(_, _)
CsvAppend(csv, items) ==
    IF items = <<>> THEN csv ELSE CsvAppend(csv \o Head(items) \o <<",">>, Tail(items))

\* tag_csv, assigned to check['tags'] only when the check has a tags key
ResolveTags(check, tag) ==
    IF Has(check, "tags")
    THEN Put(check, "tags",
             Str(RStrip(CsvAppend(Format(tag) \o <<",">>,
                                  [n \in 1..Len(check.v["tags"].v) |-> Format(check.v["tags"].v[n])]),
                        ",")))
    ELSE check

\* teamids / integrationids: the names replaced by the ids of the table
ResolveIds(check, field, table) ==
    IF Has(check, field)
    THEN Put(check, field,
             Str(RStrip(CsvAppend(<<>>,
                                  [n \in 1..Len(check.v[field].v) |-> Format(table.v[check.v[field].v[n].v])]),
                        ",")))
    ELSE check

ResolveCheck(check, tag, teams, integrations) ==
    ResolveIds(ResolveIds(ResolveTags(check, tag), "teamids", teams), "integrationids", integrations)

\* ------------------------------------------------------------ remote service

Statuses == {HTTP_OK, 500}

\* the entry of GET /checks for a stored check, and the body of GET /checks/{id}
Summary(r) == [f \in (DOMAIN r) \ {"tags"} |-> r[f]]
Detail(r) == [f \in (DOMAIN r) \ {"host", "hostname"} |-> r[f]]
Listing(remote) == [n \in 1..Len(remote) |-> Summary(remote[n])]

GetChecksResponses(remote) ==
    {[status |-> 500, json |-> EmptyMap], [status |-> HTTP_OK, json |-> [checks |-> Listing(remote)]]}
    \cup (IF remote = <<>> THEN {[status |-> HTTP_OK, json |-> EmptyMap]} ELSE {})

DetailResponses(remote, id) ==
    {[status |-> 500, json |-> EmptyMap]}
    \cup {[status |-> HTTP_OK, json |-> [check |-> Detail(remote[n])]] : n \in {m \in 1..Len(remote) : remote[m].id = id}}

\* --------------------------------------------------------------- the client

\* mutant: the cache is tested for truth, so an empty list counts as unset
CacheHitTruthy(cache, cached) == cache = TRUE /\ cached.ty # "none" /\ Len(cached.v) > 0

\* mutant: get_checks never returns the cached list
CacheHitNever(cache, cached) == FALSE

\* get_checks: the cached list is returned when cache is True and the cache is set
CacheHit(cache, cached) == cache = TRUE /\ cached.ty # "none"

\* checks = []; if 'checks' in response_json: append each
ChecksOf(response_json) ==
    IF "checks" \in DOMAIN response_json THEN response_json.checks ELSE <<>>

\* mutant: get_checks does not look at the status
GetChecksRaisesNever(status) == FALSE

\* if response.status_code != 200: raise, in each of the four client methods
GetChecksRaises(status) == status # HTTP_OK
UpdateRaises(status) == status # HTTP_OK
DetailRaises(status) == status # HTTP_OK

\* mutant: the host is compared as declared
NormalizeHostAsDeclared(host) == Format(host)

\* host = str(host).lower()
NormalizeHost(host) == Lower(Format(host))

\* the entries one listed check adds to found: one per matching field
FoundOf(check, host) ==
    (IF "host" \in DOMAIN check /\ check.host = host THEN <<check>> ELSE <<>>)
    \o (IF "hostname" \in DOMAIN check /\ check.hostname = host THEN <<check>> ELSE <<>>)

RECURSIVE FindHostCandidates(_, _)
FindHostCandidates(checks, host) ==
    IF checks = <<>> THEN <<>> ELSE FoundOf(Head(checks), host) \o FindHostCandidates(Tail(checks), host)

\* tag['name'] == tag_current
TagEq(tag, tag_current) == tag_current.ty = "str" /\ tag.name = tag_current.v

\* mutant: the requested tags that occur among the tags of the detail are counted
CountTagsFoundDistinct(check_detail, tags) ==
    Cardinality({q \in 1..Len(tags) :
                   \E p \in 1..Len(check_detail.tags) : TagEq(check_detail.tags[p], tags[q])})

\* count_tags_found after the two nested loops
CountTagsFound(check_detail, tags) ==
    Cardinality({p \in (1..Len(check_detail.tags)) \X (1..Len(tags)) :
                   TagEq(check_detail.tags[p[1]], tags[p[2]])})

\* whether the candidate whose detail is check_detail is appended to matches
DetailMatches(check_detail, tags) ==
    "tags" \in DOMAIN check_detail /\ CountTagsFound(check_detail, tags) = Len(tags)

\* mutant: update_check leaves the type in the body
StripTypeKept(configuration) == configuration

\* update_check: if 'type' in configuration: del configuration['type']
StripType(configuration) == IF Has(configuration, "type") THEN Del(configuration, "type") ELSE configuration

\* ------------------------------------------------------------------- inputs

Chars(name) ==
    CASE name = "t" -> <<"t">>
      [] name = "b" -> <<"b">>
      [] name = "b," -> <<"b", ",">>
      [] name = "p" -> <<"p">>
      [] name = "a.com" -> <<"a", ".", "c", "o", "m">>
      [] name = "A.com" -> <<"A", ".", "c", "o", "m">>
      [] name = "b.com" -> <<"b", ".", "c", "o", "m">>
      [] name = "http" -> <<"h", "t", "t", "p">>
      [] name = "1.0" -> <<"1", ".", "0">>
      [] name = "x" -> <<"x">>
      [] name = "y" -> <<"y">>
      [] name = "n" -> <<"n">>

S(name) == Str(Chars(name))

\* the declared checks a document draws from
DeclaredShapes == <<
    Dict([name |-> S("n"), host |-> S("a.com"), type |-> S("http"), tags |-> List(<<S("b")>>)]),
    Dict([name |-> S("n"), host |-> S("A.com"), type |-> S("http")]),
    Dict([name |-> S("n"), host |-> S("b.com"), tags |-> List(<<>>), teamids |-> List(<<S("x")>>)]),
    Dict([name |-> S("n"), host |-> S("a.com"), type |-> S("http"), teamids |-> List(<<S("y")>>)]) >>

DefaultShapes == << NoneV, Dict([type |-> S("http")]) >>

Gitops == Dict([type |-> Str(GITOPS_TYPE), version |-> S("1.0")])

Document(checks, default) ==
    LET base == [tag |-> S("t"),
                 teams |-> Dict([key \in {Chars("x")} |-> IntV(12)]),
                 integrations |-> Dict(EmptyMap),
                 checks |-> List(checks)]
    IN Dict([gitops |-> Gitops,
             pingdom |-> IF default.ty = "none" THEN Dict(base) ELSE Put(Dict(base), "default", default)])

\* documents with a top-level defect
BrokenDocuments == <<
    Put(Document(<<DeclaredShapes[1]>>, NoneV), "gitops", Del(Gitops, "version")),
    Put(Document(<<DeclaredShapes[1]>>, NoneV), "pingdom",
        Del(Document(<<DeclaredShapes[1]>>, NoneV).v["pingdom"], "tag")) >>

\* the checks the remote service may hold, before their ids are given
RemoteShapes == <<
    [host |-> Chars("a.com"), tags |-> <<[name |-> Chars("t")]>>],
    [host |-> Chars("a.com"), hostname |-> Chars("a.com"), tags |-> <<[name |-> Chars("b")], [name |-> Chars("t")]>>],
    [host |-> Chars("A.com"), hostname |-> Chars("b.com"), tags |-> <<[name |-> Chars("b")]>>] >>

WithId(r, id) == [f \in (DOMAIN r) \cup {"id"} |-> IF f = "id" THEN id ELSE r[f]]

\* -------------------------------------------------------------------- state

VARIABLES
    document,       \* the YAML document as loaded from the file
    configuration,  \* the YAML document, mutated in place by both passes
    remote,         \* the checks held by the remote service
    cached,         \* Pingdom.__get_checks_cache__
    pc,             \* where the run is
    i,              \* index of the declared check of the for loop
    host,           \* host of process_configuration_yaml
    tags,           \* tags argument of find_matching_checks
    found,          \* found of find_matching_checks
    j,              \* index in found of the candidate whose detail is fetched next
    matches,        \* matches of find_matching_checks / process_configuration_yaml
    k,              \* index in matches of the check updated next
    error,          \* error of process_configuration_yaml
    outcome,        \* how the process ended
    trace,          \* the remote calls issued so far, in order
    matched,        \* the calls of find_matching_checks that returned, in order
    created,        \* the checks the remote service stored for the creates of this run
    round,          \* 1 in a first run, 2 in a run over what a first run left
    pure            \* a function applied on its own: its arguments and its result

vars == <<document, configuration, remote, cached, pc, i, host, tags, found, j, matches, k, error,
          outcome, trace, matched, created, round, pure>>

\* the directory of the remote service: the checks it held when the run began,
\* then the checks it stored since
Service == remote \o created

\* the check the service stores for the body of a successful POST /checks: the
\* host as submitted and one tag per name of the comma-separated tags
Stored(params, id) ==
    [id |-> id,
     host |-> Format(params.v["host"]),
     tags |-> IF Has(params, "tags")
              THEN [n \in 1..Len(Split(params.v["tags"].v, ",")) |-> [name |-> Split(params.v["tags"].v, ",")[n]]]
              ELSE <<>>]

Checks(conf) == conf.v["pingdom"].v["checks"].v
SetCheck(conf, n, check) ==
    Put(conf, "pingdom", Put(conf.v["pingdom"], "checks", List([Checks(conf) EXCEPT ![n] = check])))

Running == [exit |-> -1, raised |-> "", msg |-> ""]

Init ==
    /\ \/ \E n \in 0..MaxChecks : \E f \in [1..n -> 1..Len(DeclaredShapes)] :
            \E d \in 1..Len(DefaultShapes) :
                configuration = Document([m \in 1..n |-> DeclaredShapes[f[m]]], DefaultShapes[d])
       \/ \E b \in 1..Len(BrokenDocuments) : configuration = BrokenDocuments[b]
    /\ document = configuration
    /\ \E n \in 0..MaxRemote : \E f \in [1..n -> 1..Len(RemoteShapes)] :
            remote = [m \in 1..n |-> WithId(RemoteShapes[f[m]], m)]
    /\ cached = NoneV
    /\ pc = "validate"
    /\ i = 1
    /\ host = Str(<<>>)
    /\ tags = <<>>
    /\ found = <<>>
    /\ j = 1
    /\ matches = <<>>
    /\ k = 1
    /\ error = FALSE
    /\ outcome = Running
    /\ trace = <<>>
    /\ matched = <<>>
    /\ created = <<>>
    /\ round = 1
    /\ pure = [op |-> "none"]

\* ------------------------------------------------------------------ actions

Call(method, id, params, status, decl) ==
    [method |-> method, id |-> id, params |-> params, status |-> status, decl |-> decl]

\* the except clause of __main__: exit(3)
Exit3(raised, msg) ==
    /\ pc' = "exit"
    /\ outcome' = [exit |-> 3, raised |-> raised, msg |-> msg]

\* mutant: the result of the validation is ignored
AfterValidateIgnored(ok) == "for"

\* __main__: where the run goes after validate_configuration_yaml
AfterValidate(ok) == IF ok THEN "for" ELSE "exit"

\* __main__: Pingdom.validate_configuration_yaml(configuration_yaml), then the
\* locals of process_configuration_yaml
Validate ==
    /\ pc = "validate"
    /\ LET r == ValidateConfigurationYaml(configuration)
       IN /\ configuration' = r.configuration
          /\ pc' = AfterValidate(r.ok)
          /\ outcome' = IF r.ok THEN outcome
                        ELSE [exit |-> 3, raised |-> "validate_configuration_yaml", msg |-> r.msg]
    /\ error' = FALSE
    /\ UNCHANGED <<pure, round, created, document, remote, cached, i, host, tags, found, j, matches, k, trace, matched>>

\* mutant: the result of the matcher is ignored
DecideAlwaysCreate(m) == "create"

\* if len(matches) == 0: create, else: update
Decide(m) == IF Len(m) = 0 THEN "create" ELSE "update"

\* find_matching_checks returns m to process_configuration_yaml
Return(m) ==
    /\ matches' = m
    /\ matched' = Append(matched, [decl |-> i, host |-> host', tags |-> tags', result |-> m])
    /\ k' = 1
    /\ pc' = Decide(m)
    /\ outcome' = outcome

\* find_matching_checks from the host scan on, over the list get_checks returned
Scan(checks) ==
    LET f == FindHostCandidates(checks, NormalizeHost(host'))
    IN /\ found' = f
       /\ j' = 1
       /\ IF Len(f) = 0 THEN Return(<<>>)
          ELSE IF Len(tags') = 0 THEN Return(f)
          ELSE /\ pc' = "detail"
               /\ matches' = <<>>
               /\ UNCHANGED <<matched, k, outcome>>

\* mutant: find_matching_checks is called without a tag filter
MatcherTagsNone(check, tag) == <<>>

\* tags=[tag] of the call of find_matching_checks
MatcherTags(check, tag) == <<tag>>

\* the head of one iteration of the for loop: default merge, identity resolution,
\* and the arguments of find_matching_checks
BeginCheck ==
    LET config_pingdom == configuration.v["pingdom"]
        merged == MergeDefault(Checks(configuration)[i], DefaultOf(config_pingdom))
        check == ResolveCheck(merged, config_pingdom.v["tag"], config_pingdom.v["teams"],
                              config_pingdom.v["integrations"])
    IN /\ configuration' = SetCheck(configuration, i, check)
       /\ host' = merged.v["host"]
       /\ tags' = MatcherTags(merged, config_pingdom.v["tag"])

\* whether a subscript of process_configuration_yaml raises KeyError in the
\* iteration for check n: a section, the host, or a name absent from its table
KeyErrorAt(conf, n) ==
    LET config_pingdom == conf.v["pingdom"]
        check == MergeDefault(Checks(conf)[n], DefaultOf(config_pingdom))
        Unknown(field) ==
            /\ Has(check, field)
            /\ \E m \in 1..Len(check.v[field].v) : ~InTable(check.v[field].v[m], config_pingdom.v[field_table(field)])
    IN \/ \E key \in {"tag", "teams", "integrations"} : ~Has(config_pingdom, key)
       \/ ~Has(check, "host")
       \/ Unknown("teamids")
       \/ Unknown("integrationids")

\* an iteration whose get_checks() is served from the cache
ForCheckCached ==
    /\ pc = "for"
    /\ i <= Len(Checks(configuration))
    /\ CacheHit(TRUE, cached)
    /\ IF KeyErrorAt(configuration, i)
       THEN /\ Exit3("process_configuration_yaml", "KeyError")
            /\ UNCHANGED <<configuration, host, tags, found, j, matches, k, matched>>
       ELSE BeginCheck /\ Scan(cached.v)
    /\ UNCHANGED <<pure, round, created, document, remote, cached, i, error, trace>>

\* an iteration whose get_checks() issues GET /checks
ForCheckListing ==
    /\ pc = "for"
    /\ i <= Len(Checks(configuration))
    /\ ~CacheHit(TRUE, cached)
    /\ IF KeyErrorAt(configuration, i)
       THEN /\ Exit3("process_configuration_yaml", "KeyError")
            /\ UNCHANGED <<configuration, host, tags, found, j, matches, k, matched, cached, trace>>
       ELSE /\ BeginCheck
            /\ \E response \in GetChecksResponses(Service) :
                /\ trace' = Append(trace, Call("GET", 0, NoneV, response.status, i))
                /\ IF GetChecksRaises(response.status)
                   THEN /\ Exit3("get_checks", "")
                        /\ UNCHANGED <<cached, found, j, matches, k, matched>>
                   ELSE /\ cached' = List(ChecksOf(response.json))
                        /\ Scan(ChecksOf(response.json))
    /\ UNCHANGED <<pure, round, created, document, remote, i, error>>

\* mutant: a detail request that fails is taken for a candidate without the tags
DetailOutcomeSkips(response, tgs) ==
    IF DetailRaises(response.status) THEN "continue"
    ELSE IF DetailMatches(response.json.check, tgs) THEN "append" ELSE "continue"

\* what one iteration of the loop over found does with the response of the detail
\* request: raise, append the candidate to matches, or go on to the next one
DetailOutcome(response, tgs) ==
    IF DetailRaises(response.status) THEN "raise"
    ELSE IF DetailMatches(response.json.check, tgs) THEN "append" ELSE "continue"

\* find_matching_checks: GET /checks/{id} for found[j] and the tag count
FetchDetail ==
    /\ pc = "detail"
    /\ UNCHANGED <<pure, round, created, document, configuration, remote, cached, i, host, tags, found, error>>
    /\ \E response \in DetailResponses(Service, found[j].id) :
        /\ trace' = Append(trace, Call("GET", found[j].id, NoneV, response.status, i))
        /\ IF DetailOutcome(response, tags) = "raise"
           THEN /\ Exit3("find_matching_checks", "")
                /\ UNCHANGED <<j, matches, k, matched>>
           ELSE LET m == IF DetailOutcome(response, tags) = "append"
                         THEN Append(matches, found[j]) ELSE matches
                IN IF j = Len(found)
                   THEN Return(m) /\ j' = j
                   ELSE /\ matches' = m
                        /\ j' = j + 1
                        /\ UNCHANGED <<pc, k, matched, outcome>>

\* mutant: the except clause of the create branch sets the flag too
ErrorAfterCreateSets(flag, status) == flag \/ status # HTTP_OK

\* the flag after the except clause of the create branch (it only prints)
ErrorAfterCreate(flag, status) == flag

\* mutant: the exception of create_check is not caught
AfterCreateUncaught(status) == IF status # HTTP_OK THEN "exit" ELSE "for"

\* where the run goes after create_check returned or raised: the exception is caught
AfterCreate(status) == "for"

\* the flag after an update call: the except clause sets it
ErrorAfterUpdate(flag, status) == flag \/ UpdateRaises(status)

\* whether the for loop over matches goes on after the update of matches[n]
MoreUpdates(n, m, status) == ~UpdateRaises(status) /\ n < Len(m)

\* pingdom.create_check(configuration=check): POST /checks
CreateCheck ==
    /\ pc = "create"
    /\ \E status \in Statuses :
        /\ trace' = Append(trace, Call("POST", 0, Checks(configuration)[i], status, i))
        /\ error' = ErrorAfterCreate(error, status)
        /\ pc' = AfterCreate(status)
        /\ created' = IF status = HTTP_OK
                       THEN Append(created, Stored(Checks(configuration)[i], Len(Service) + 1))
                       ELSE created
    /\ i' = i + 1
    /\ UNCHANGED <<pure, round, document, configuration, remote, cached, host, tags, found, j, matches, k, outcome, matched>>

\* pingdom.update_check(check_id, configuration=check): PUT /checks/{id}
UpdateCheck ==
    /\ pc = "update"
    /\ LET check == StripType(Checks(configuration)[i])
       IN /\ configuration' = SetCheck(configuration, i, check)
          /\ \E status \in Statuses :
              /\ trace' = Append(trace, Call("PUT", matches[k].id, check, status, i))
              /\ error' = ErrorAfterUpdate(error, status)
              /\ IF MoreUpdates(k, matches, status)
                 THEN k' = k + 1 /\ UNCHANGED <<i, pc>>
                 ELSE i' = i + 1 /\ pc' = "for" /\ k' = k
    /\ UNCHANGED <<pure, round, created, document, remote, cached, host, tags, found, j, matches, outcome, matched>>

\* after the for loop: if error is True: raise
EndRun ==
    /\ pc = "for"
    /\ i > Len(Checks(configuration))
    /\ IF error
       THEN Exit3("process_configuration_yaml", "Update completed with one or more errors")
       ELSE pc' = "exit" /\ outcome' = [exit |-> 0, raised |-> "", msg |-> ""]
    /\ UNCHANGED <<pure, round, created, document, configuration, remote, cached, i, host, tags, found, j, matches, k, error, trace, matched>>

Next ==
    \/ Validate
    \/ ForCheckCached
    \/ ForCheckListing
    \/ FetchDetail
    \/ CreateCheck
    \/ UpdateCheck
    \/ EndRun

Spec == Init /\ [][Next]_vars

\* ------------------------------------------------- the same document run twice

\* declared checks with lower-case hosts that pass validation without a default:
\* with tags, with an empty tags list, and without a tags key
TwiceShapes == <<
    Dict([name |-> S("n"), host |-> S("a.com"), type |-> S("http"), tags |-> List(<<S("b")>>)]),
    Dict([name |-> S("n"), host |-> S("b.com"), type |-> S("http"), tags |-> List(<<>>)]),
    Dict([name |-> S("n"), host |-> S("a.com"), type |-> S("http")]) >>

InitTwice ==
    /\ \E n \in 0..MaxChecks : \E f \in [1..n -> 1..Len(TwiceShapes)] :
            configuration = Document([m \in 1..n |-> TwiceShapes[f[m]]], NoneV)
    /\ document = configuration
    /\ \E n \in 0..MaxRemote : \E f \in [1..n -> 1..Len(RemoteShapes)] :
            remote = [m \in 1..n |-> WithId(RemoteShapes[f[m]], m)]
    /\ cached = NoneV
    /\ pc = "validate"
    /\ i = 1
    /\ host = Str(<<>>)
    /\ tags = <<>>
    /\ found = <<>>
    /\ j = 1
    /\ matches = <<>>
    /\ k = 1
    /\ error = FALSE
    /\ outcome = Running
    /\ trace = <<>>
    /\ matched = <<>>
    /\ created = <<>>
    /\ round = 1
    /\ pure = [op |-> "none"]

\* the stored check after a successful PUT /checks/{id} with the body params:
\* the submitted host and tags replace its own
Overwritten(r, params) ==
    [f \in DOMAIN r |->
        IF f = "host" /\ Has(params, "host") THEN Format(params.v["host"])
        ELSE IF f = "tags" /\ Has(params, "tags") THEN Stored(params, r.id).tags
        ELSE r[f]]

\* the directory after the update calls of calls, in order
RECURSIVE AfterUpdates(_, _)
AfterUpdates(service, calls) ==
    IF calls = <<>> THEN service
    ELSE LET c == Head(calls)
         IN AfterUpdates([n \in 1..Len(service) |->
                            IF c.method = "PUT" /\ c.status = HTTP_OK /\ service[n].id = c.id
                            THEN Overwritten(service[n], c.params) ELSE service[n]],
                         Tail(calls))

\* the program is started again with the same file, after a first run that
\* exited with 0 and in which every call succeeded
SecondRun ==
    /\ round = 1
    /\ pc = "exit"
    /\ outcome.exit = 0
    /\ \A n \in 1..Len(trace) : trace[n].status = HTTP_OK
    /\ round' = 2
    /\ remote' = AfterUpdates(Service, trace)
    /\ created' = <<>>
    /\ configuration' = document
    /\ cached' = NoneV
    /\ pc' = "validate"
    /\ i' = 1
    /\ host' = Str(<<>>)
    /\ tags' = <<>>
    /\ found' = <<>>
    /\ j' = 1
    /\ matches' = <<>>
    /\ k' = 1
    /\ error' = FALSE
    /\ outcome' = Running
    /\ trace' = <<>>
    /\ matched' = <<>>
    /\ UNCHANGED <<document, pure>>

NextTwice ==
    \/ Next
    \/ SecondRun

SpecTwice == InitTwice /\ [][NextTwice]_vars

\* ------------------------------------------- the functions applied on their own

MaxDetailTags == 2
MaxRequested == 2
MaxNames == 2

SeqsUpTo(set, n) == UNION {[1..m -> set] : m \in 0..n}

\* the loop over found of find_matching_checks when every detail request succeeds;
\* details[id] is the check of the response of GET /checks/{id}
RECURSIVE FilterByTags(_, _, _)
FilterByTags(cands, details, tgs) ==
    IF cands = <<>> THEN <<>>
    ELSE (IF DetailMatches(details[Head(cands).id], tgs) THEN <<Head(cands)>> ELSE <<>>)
         \o FilterByTags(Tail(cands), details, tgs)

\* find_matching_checks(host, tags) over the list get_checks returns
FindMatchingChecks(checks, details, h, tgs) ==
    LET f == FindHostCandidates(checks, NormalizeHost(h))
    IN IF Len(f) = 0 THEN <<>>
       ELSE IF Len(tgs) = 0 THEN f
       ELSE FilterByTags(f, details, tgs)

\* the state of the run while a function is applied on its own
Idle ==
    /\ document = NoneV
    /\ configuration = NoneV
    /\ remote = <<>>
    /\ cached = NoneV
    /\ pc = "pure"
    /\ i = 1
    /\ host = Str(<<>>)
    /\ tags = <<>>
    /\ found = <<>>
    /\ j = 1
    /\ matches = <<>>
    /\ k = 1
    /\ error = FALSE
    /\ outcome = Running
    /\ trace = <<>>
    /\ matched = <<>>
    /\ created = <<>>
    /\ round = 1

run == <<document, configuration, remote, cached, pc, i, host, tags, found, j, matches, k, error,
         outcome, trace, matched, created, round>>

\* one listed check for the host a.com, the detail the service returns for it,
\* and the tags asked for
MatchDetails ==
    {[id |-> 1]} \cup {[id |-> 1, tags |-> [n \in DOMAIN names |-> [name |-> names[n]]]] :
                          names \in SeqsUpTo({Chars("t"), Chars("b")}, MaxDetailTags)}
MatchInputs ==
    {[op |-> "match", checks |-> <<[id |-> 1, host |-> Chars("a.com")]>>, details |-> <<d>>,
      host |-> S("A.com"), tags |-> tgs, done |-> FALSE, out |-> <<>>] :
        d \in MatchDetails, tgs \in SeqsUpTo({S("t"), S("b")}, MaxRequested)}

ApplyMatch ==
    /\ pure.op = "match"
    /\ ~pure.done
    /\ pure' = [pure EXCEPT !.done = TRUE,
                            !.out = FindMatchingChecks(pure.checks, pure.details, pure.host, pure.tags)]
    /\ UNCHANGED run

\* one merged check, the reconciliation tag and the two tables of the document;
\* each of the three lists is absent or holds up to MaxNames names
TeamsTable == Dict([key \in {Chars("x"), Chars("y")} |-> IF key = Chars("x") THEN IntV(12) ELSE IntV(7)])
IntegrationsTable == Dict([key \in {Chars("p")} |-> IntV(3)])
WithList(check, field, names) == IF names.has THEN Put(check, field, List(names.v)) ELSE check
Lists(set) == {[has |-> FALSE, v |-> <<>>]} \cup {[has |-> TRUE, v |-> l] : l \in SeqsUpTo(set, MaxNames)}
ResolveInputs ==
    {[op |-> "resolve",
      check |-> WithList(WithList(WithList(Dict([host |-> S("a.com")]), "tags", tgs), "teamids", tms),
                         "integrationids", ints),
      tag |-> S("t"), teams |-> TeamsTable, integrations |-> IntegrationsTable,
      done |-> FALSE, out |-> NoneV] :
        tgs \in Lists({S("b"), Str(<<>>), S("b,")}), tms \in Lists({S("x"), S("y")}),
        ints \in Lists({S("p")})}

ApplyResolve ==
    /\ pure.op = "resolve"
    /\ ~pure.done
    /\ pure' = [pure EXCEPT !.done = TRUE,
                            !.out = ResolveCheck(pure.check, pure.tag, pure.teams, pure.integrations)]
    /\ UNCHANGED run

\* a declared check and pingdom.default (or its absence), each over some of
\* the keys host, type and tags, with values that tell the two apart
MergeKeys == {"host", "type", "tags"}
MergeInputs ==
    {[op |-> "merge", check |-> Dict([key \in ck |-> S("x")]), default |-> d,
      done |-> FALSE, out |-> NoneV, again |-> FALSE, out2 |-> NoneV] :
        ck \in SUBSET MergeKeys,
        d \in {NoneV} \cup {Dict([key \in dk |-> S("y")]) : dk \in SUBSET MergeKeys}}

\* the default merge of validate_configuration_yaml
ApplyMerge ==
    /\ pure.op = "merge"
    /\ ~pure.done
    /\ pure' = [pure EXCEPT !.done = TRUE, !.out = MergeDefault(pure.check, pure.default)]
    /\ UNCHANGED run

\* the default merge of process_configuration_yaml, over the check as validation left it
ApplyMergeAgain ==
    /\ pure.op = "merge"
    /\ pure.done
    /\ ~pure.again
    /\ pure' = [pure EXCEPT !.again = TRUE, !.out2 = MergeDefault(pure.out, pure.default)]
    /\ UNCHANGED run

\* documents with one declared check whose name, host and type are each absent,
\* a string, the empty string or an integer, with or without a default type
MandatoryValues == {NoneV, S("n"), Str(<<>>), IntV(1)}
WithValue(check, key, value) == IF value.ty = "none" THEN check ELSE Put(check, key, value)
MandatoryDocuments ==
    {Document(<<WithValue(WithValue(WithValue(Dict(EmptyMap), "name", nm), "host", hs), "type", tp)>>, d) :
        nm \in MandatoryValues, hs \in MandatoryValues, tp \in MandatoryValues,
        d \in {NoneV, Dict([type |-> S("http")]), Dict([type |-> Str(<<>>)])}}

\* documents that pass validation, and the same without one section.key
ValidDocuments ==
    {Document(<<>>, NoneV), Document(<<DeclaredShapes[1]>>, NoneV),
     Document(<<DeclaredShapes[2], DeclaredShapes[3]>>, DefaultShapes[2])}
RequiredKeys ==
    {<<"gitops", "type">>, <<"gitops", "version">>, <<"pingdom", "tag">>, <<"pingdom", "teams">>,
     <<"pingdom", "integrations">>, <<"pingdom", "checks">>}
Without(doc, key) == Put(doc, key[1], Del(doc.v[key[1]], key[2]))
ValidateInputs ==
    {[op |-> "validate", document |-> doc, done |-> FALSE, out |-> Pass(doc)] :
        doc \in MandatoryDocuments \cup ValidDocuments
                \cup {Without(base, key) : base \in ValidDocuments, key \in RequiredKeys}}

ApplyValidate ==
    /\ pure.op = "validate"
    /\ ~pure.done
    /\ pure' = [pure EXCEPT !.done = TRUE, !.out = ValidateConfigurationYaml(pure.document)]
    /\ UNCHANGED run

InitPure ==
    /\ Idle
    /\ \/ pure \in MatchInputs
       \/ pure \in ResolveInputs
       \/ pure \in MergeInputs
       \/ pure \in ValidateInputs

NextPure ==
    \/ ApplyMatch
    \/ ApplyResolve
    \/ ApplyMerge
    \/ ApplyMergeAgain
    \/ ApplyValidate

SpecPure == InitPure /\ [][NextPure]_vars

\* ---------------------------------------------------- vocabulary of the claims

Failed(c) == c.status # HTTP_OK
IsWrite(c) == c.method \in {"POST", "PUT"}
IsListing(c) == c.method = "GET" /\ c.id = 0
IsDetail(c) == c.method = "GET" /\ c.id # 0
CallsOf(d, method) == SelectSeq(trace, LAMBDA c : c.decl = d /\ c.method = method)
Listings == SelectSeq(trace, IsListing)
Declared == 1..Len(Checks(document))
ReconciliationTag == document.v["pingdom"].v["tag"]

ListingSucceeded == \E n \in 1..Len(trace) : IsListing(trace[n]) /\ ~Failed(trace[n])
DetailFailed == \E n \in 1..Len(trace) : IsDetail(trace[n]) /\ Failed(trace[n])
Attempted(d) == \E n \in 1..Len(trace) : IsWrite(trace[n]) /\ trace[n].decl = d
\* the remote calls are issued for the declared checks in declaration order
CallsInOrder == \A n \in 1..(Len(trace) - 1) : trace[n].decl <= trace[n + 1].decl

\* ------------------------------------------------------------------ claims

\* C1 (as claimed): when a declared check has several matched remote checks and
\* one of its update calls fails, the error flag is set and an update is still
\* attempted for every remaining matched remote check of that declared check.
C1_RemainingUpdatesAttempted ==
    \A n \in 1..Len(matched) :
        LET m == matched[n]
            puts == CallsOf(m.decl, "PUT")
        IN (/\ m.decl < i
            /\ \E a, b \in 1..Len(m.result) : m.result[a].id # m.result[b].id
            /\ \E q \in 1..Len(puts) : Failed(puts[q]))
           => /\ error
              /\ Len(puts) = Len(m.result)
              /\ \A q \in 1..Len(puts) : puts[q].id = m.result[q].id

\* C2 (as claimed): once the directory listing has succeeded, the run ends only
\* after a create or an update was attempted for every declared check, in
\* declaration order.
C2_FullListOnceListed ==
    ListingSucceeded =>
        /\ \A d \in Declared : d < i => Attempted(d)
        /\ pc = "exit" => i > Len(Checks(document))
        /\ CallsInOrder

\* C2 (amended): once the directory listing has succeeded, and as long as no detail
\* fetch fails, a create or at least one update is attempted for every declared
\* check, in declaration order, whatever create or update calls failed before; the
\* run ends only after the last declared check.
C2_FullListUnlessDetailFails ==
    (ListingSucceeded /\ ~DetailFailed) =>
        /\ \A d \in Declared : d < i => Attempted(d)
        /\ pc = "exit" => i > Len(Checks(document))
        /\ CallsInOrder

\* a finished run of two declared checks: a call of the first failed, the second
\* was attempted all the same
C2_Witness ==
    /\ pc = "exit"
    /\ Len(Checks(document)) = 2
    /\ ListingSucceeded /\ ~DetailFailed
    /\ \E n \in 1..Len(trace) : IsWrite(trace[n]) /\ trace[n].decl = 1 /\ Failed(trace[n])
    /\ Attempted(2)

\* C3: a run that reaches the end of the declared-check list fails with the
\* aggregate error exactly when an update call failed; the aggregate error is
\* raised only after the last declared check, and failed creates never cause it.
C3_AggregateIffUpdateFailed ==
    /\ (pc = "exit" /\ outcome.raised \in {"", "process_configuration_yaml"}) =>
          /\ i > Len(Checks(document))
          /\ (outcome.exit = 3 /\ outcome.raised = "process_configuration_yaml")
                <=> \E n \in 1..Len(trace) : trace[n].method = "PUT" /\ Failed(trace[n])
          /\ outcome.exit = 0
                <=> ~\E n \in 1..Len(trace) : trace[n].method = "PUT" /\ Failed(trace[n])
    /\ error <=> \E n \in 1..Len(trace) : trace[n].method = "PUT" /\ Failed(trace[n])

\* a run ended by the aggregate error: the update of the first declared check
\* failed and the second declared check was processed after it
C3_Witness ==
    /\ pc = "exit"
    /\ outcome.raised = "process_configuration_yaml"
    /\ \E n \in 1..Len(trace) : trace[n].method = "PUT" /\ trace[n].decl = 1 /\ Failed(trace[n])
    /\ \E n \in 1..Len(trace) : trace[n].method = "POST" /\ trace[n].decl = 2 /\ Failed(trace[n])

\* whether a submitted body has a tags field whose comma-separated items include tag
CarriesTag(params, tag) ==
    /\ Has(params, "tags")
    /\ params.v["tags"].ty = "str"
    /\ Format(tag) \in Range(Split(params.v["tags"].v, ","))

\* C4 (as claimed): every body submitted to create_check or update_check carries a
\* tags field that contains the reconciliation tag, whether or not the declared
\* check declares tags.
C4_EveryBodyCarriesTag ==
    \A n \in 1..Len(trace) : IsWrite(trace[n]) => CarriesTag(trace[n].params, ReconciliationTag)

\* C5: the matcher is called with the host of the declared check and the list
\* [reconciliation tag]; an empty result gives exactly one create and no update,
\* a non-empty one no create and updates only of matched ids; never both.
C5_CreateXorUpdate ==
    /\ \A n \in 1..Len(matched) :
          LET m == matched[n]
              posts == CallsOf(m.decl, "POST")
              puts == CallsOf(m.decl, "PUT")
          IN /\ m.host = MergeDefault(Checks(document)[m.decl], DefaultOf(document.v["pingdom"])).v["host"]
             /\ m.tags = <<ReconciliationTag>>
             /\ \A q \in 1..Len(matched) : matched[q].decl = m.decl => q = n
             /\ Len(m.result) = 0 =>
                   /\ Len(puts) = 0
                   /\ Len(posts) <= 1
                   /\ m.decl < i => Len(posts) = 1
             /\ Len(m.result) > 0 =>
                   /\ Len(posts) = 0
                   /\ m.decl < i => Len(puts) >= 1
                   /\ \A q \in 1..Len(puts) : \E r \in 1..Len(m.result) : puts[q].id = m.result[r].id
    /\ \A d \in Declared :
          /\ Attempted(d) => \E n \in 1..Len(matched) : matched[n].decl = d
          /\ ~(Len(CallsOf(d, "POST")) > 0 /\ Len(CallsOf(d, "PUT")) > 0)

\* a finished run in which one declared check was created and the other updated
C5_Witness ==
    /\ pc = "exit"
    /\ Len(matched) = 2
    /\ Len(matched[1].result) > 0 /\ Len(CallsOf(1, "PUT")) > 0
    /\ Len(matched[2].result) = 0 /\ Len(CallsOf(2, "POST")) = 1

\* the declared check d after default merging
MergedDeclared(d) == MergeDefault(Checks(document)[d], DefaultOf(document.v["pingdom"]))

\* C6: no body sent by update_check contains a type field, for any number of
\* matched remote checks, and every body sent by create_check has the declared type.
C6_NoTypeOnUpdate ==
    \A n \in 1..Len(trace) :
        /\ trace[n].method = "PUT" => ~Has(trace[n].params, "type")
        /\ trace[n].method = "POST" =>
              /\ Has(trace[n].params, "type")
              /\ trace[n].params.v["type"] = MergedDeclared(trace[n].decl).v["type"]

\* one declared check updated at two matched remote checks, another one created
C6_Witness ==
    /\ Len(CallsOf(1, "PUT")) >= 2
    /\ Has(MergedDeclared(1), "type")
    /\ Len(CallsOf(2, "POST")) = 1

\* a declared check that, after default merging, names a team or an integration
\* absent from its table
UnresolvedReference(doc) ==
    \E d \in 1..Len(Checks(doc)) : \E field \in {"teamids", "integrationids"} :
        LET check == MergeDefault(Checks(doc)[d], DefaultOf(doc.v["pingdom"]))
        IN /\ Has(check, field)
           /\ \E m \in 1..Len(check.v[field].v) :
                 ~InTable(check.v[field].v[m], doc.v["pingdom"].v[field_table(field)])

\* C7: validation runs to completion before any remote call; when it fails, in
\* particular on a name absent from its table, the run issues no remote call.
C7_NoRemoteCallUnlessValid ==
    /\ pc = "validate" => trace = <<>>
    /\ (trace # <<>> \/ cached.ty # "none") => ValidateConfigurationYaml(document).ok
    /\ (\/ trace # <<>>
        \/ pc # "validate" /\ ~(pc = "exit" /\ outcome.raised = "validate_configuration_yaml"))
          => ~UnresolvedReference(document)

\* validation failed on the second declared check, whose team name is unknown,
\* while the remote service holds checks
C7_Witness ==
    /\ pc = "exit"
    /\ outcome.raised = "validate_configuration_yaml"
    /\ Len(Checks(document)) = 2
    /\ ~UnresolvedReference(Document(<<Checks(document)[1]>>, DefaultOf(document.v["pingdom"])))
    /\ UnresolvedReference(document)
    /\ Len(remote) > 0

ListingFailed == \E n \in 1..Len(trace) : IsListing(trace[n]) /\ Failed(trace[n])

\* C8: a non-success status of GET /checks fails the run at once: one listing
\* attempt, the cache still unset, no create and no update.
C8_ListingFailureAborts ==
    ListingFailed =>
        /\ pc = "exit"
        /\ outcome.exit = 3 /\ outcome.raised = "get_checks"
        /\ Len(Listings) = 1
        /\ cached.ty = "none"
        /\ \A n \in 1..Len(trace) : ~IsWrite(trace[n])

\* the listing failed in a run of two declared checks over a non-empty directory
C8_Witness ==
    /\ ListingFailed
    /\ pc = "exit"
    /\ Len(Checks(document)) = 2
    /\ Len(remote) > 0

\* C9: the first successful get_checks caches the full list, an empty one
\* included, and no later call issues GET /checks: at most one successful listing.
C9_OneListingPerRun ==
    /\ Len(SelectSeq(Listings, LAMBDA c : ~Failed(c))) <= 1
    /\ ListingSucceeded <=> cached.ty = "list"
    /\ ListingSucceeded => (Len(Listings) = 1 /\ cached.v = Listing(remote))

\* two declared checks were matched against an empty cached list
C9_Witness ==
    /\ pc = "exit"
    /\ cached = List(<<>>)
    /\ Len(matched) = 2
    /\ Len(Listings) = 1

\* a listed check one of whose two fields equals the lower-cased declared host
HostCandidate(r, declared) ==
    \/ "host" \in DOMAIN r /\ r.host = Lower(declared)
    \/ "hostname" \in DOMAIN r /\ r.hostname = Lower(declared)

\* C10: the host-candidates are exactly the listed checks whose host or hostname
\* equals the lower-cased declared host; the remote value is compared as it is.
C10_HostCandidates ==
    pc \in {"detail", "create", "update"} =>
        /\ \A n \in 1..Len(cached.v) :
              (\E q \in 1..Len(found) : found[q] = cached.v[n]) <=> HostCandidate(cached.v[n], host.v)
        /\ \A q \in 1..Len(found) : \E n \in 1..Len(cached.v) : cached.v[n] = found[q]

\* the declared host A.com found the remote a.com and not the remote A.com
C10_Witness ==
    /\ pc \in {"detail", "create", "update"}
    /\ host.v = Chars("A.com")
    /\ \E q \in 1..Len(found) : "host" \in DOMAIN found[q] /\ found[q].host = Chars("a.com")
    /\ \E n \in 1..Len(cached.v) :
          /\ "host" \in DOMAIN cached.v[n] /\ cached.v[n].host = Chars("A.com")
          /\ \A q \in 1..Len(found) : found[q] # cached.v[n]


\* the call of find_matching_checks applied on its own has returned
Matched == pure.op = "match" /\ pure.done
\* the detail of the one candidate of that call has a tag of that name
NameFound(tag_current) ==
    /\ "tags" \in DOMAIN pure.details[1]
    /\ \E p \in 1..Len(pure.details[1].tags) : pure.details[1].tags[p].name = tag_current.v
\* the pairs (tag of the detail, requested tag) of equal names, counted one
\* tag of the detail after the other
RECURSIVE HitsOf(_, _)
HitsOf(name, tgs) ==
    IF tgs = <<>> THEN 0 ELSE (IF Head(tgs).v = name THEN 1 ELSE 0) + HitsOf(name, Tail(tgs))
RECURSIVE EqualPairs(_, _)
EqualPairs(detail_tags, tgs) ==
    IF detail_tags = <<>> THEN 0
    ELSE HitsOf(Head(detail_tags).name, tgs) + EqualPairs(Tail(detail_tags), tgs)
DetailTags(check_detail) == IF "tags" \in DOMAIN check_detail THEN check_detail.tags ELSE <<>>

\* C11 (as claimed): called with a non-empty tag list, find_matching_checks
\* returns a host-candidate only if every requested tag name is found among the
\* names of the tags of that candidate's detail.
C11_ReturnedOnlyIfEveryTagFound ==
    (Matched /\ Len(pure.tags) > 0 /\ pure.out # <<>>)
    => \A q \in 1..Len(pure.tags) : NameFound(pure.tags[q])

\* C12: a host-candidate is returned exactly when the number of pairs (tag of
\* the detail, requested tag) of equal names equals the number of requested
\* tags; a candidate whose detail holds the one requested name twice is not
\* returned.
C12_CountBased ==
    Matched =>
        /\ (pure.out # <<>>) <=> (EqualPairs(DetailTags(pure.details[1]), pure.tags) = Len(pure.tags))
        /\ pure.out \in {<<>>, pure.checks}
        /\ (/\ Len(pure.tags) = 1
            /\ Len(DetailTags(pure.details[1])) = 2
            /\ \A p \in 1..2 : pure.details[1].tags[p].name = pure.tags[1].v)
           => pure.out = <<>>
C12_Witness ==
    /\ Matched
    /\ pure.tags = <<S("t")>>
    /\ DetailTags(pure.details[1]) = <<[name |-> Chars("t")], [name |-> Chars("t")]>>
    /\ pure.out = <<>>


\* the identity resolution applied on its own has returned
Resolved == pure.op = "resolve" /\ pure.done
\* ','.join(items)
RECURSIVE Join(_)
Join(items) ==
    IF items = <<>> THEN <<>>
    ELSE IF Len(items) = 1 THEN Head(items)
    ELSE Head(items) \o <<",">> \o Join(Tail(items))
\* the sequences the claim joins: the reconciliation tag followed by the declared
\* tags, and the resolved integer ids of a list of names, as text
TagSequence == <<pure.tag.v>> \o [n \in 1..Len(pure.check.v["tags"].v) |-> pure.check.v["tags"].v[n].v]
IdSequence(field, table) ==
    [n \in 1..Len(pure.check.v[field].v) |-> IntToStr(table.v[pure.check.v[field].v[n].v].v)]
EndsWithComma(str) == str # <<>> /\ str[Len(str)] = ","
IdsJoined(field, table) ==
    Has(pure.check, field) => pure.out.v[field] = Str(Join(IdSequence(field, table)))

\* C13 (as claimed): tags become the reconciliation tag followed by the declared
\* tags, teamids and integrationids the resolved ids in declared order, and the
\* result equals the plain comma join of those sequences for every declared list.
C13_PlainJoinEveryList ==
    Resolved =>
        /\ Has(pure.check, "tags") => pure.out.v["tags"] = Str(Join(TagSequence))
        /\ IdsJoined("teamids", pure.teams)
        /\ IdsJoined("integrationids", pure.integrations)

\* C13 (amended): the serialized tags never end with a comma, and equal the
\* plain comma join of the reconciliation tag and the declared tags whenever
\* the last of them is non-empty and does not itself end with a comma; teamids
\* and integrationids equal the plain comma join of the resolved ids for every
\* declared list.
C13_PlainJoinUnlessTrailingEmpty ==
    Resolved =>
        /\ Has(pure.check, "tags") =>
              /\ ~EndsWithComma(pure.out.v["tags"].v)
              /\ (LET last == TagSequence[Len(TagSequence)]
                  IN last # <<>> /\ ~EndsWithComma(last))
                 => pure.out.v["tags"] = Str(Join(TagSequence))
        /\ IdsJoined("teamids", pure.teams)
        /\ IdsJoined("integrationids", pure.integrations)
C13_Witness ==
    /\ Resolved
    /\ \A field \in {"tags", "teamids", "integrationids"} : Has(pure.check, field)
    /\ pure.check.v["tags"] = List(<<Str(<<>>), S("b")>>)
    /\ pure.out.v["tags"] = Str(<<"t", ",", ",", "b">>)
    /\ pure.check.v["teamids"] = List(<<S("y"), S("x")>>)
    /\ pure.out.v["teamids"] = Str(<<"7", ",", "1", "2">>)
    /\ pure.out.v["integrationids"] = Str(<<>>)


\* the default merge applied on its own has run once / twice
MergedOnce == pure.op = "merge" /\ pure.done
MergedTwice == pure.op = "merge" /\ pure.again
DefaultKeys == IF pure.default.ty = "none" THEN {} ELSE DOMAIN pure.default.v

\* C14: the default merge sets only the keys absent from the check, to the
\* values of the default, never changes a value the check has, and merging a
\* second time leaves the check as the first merge left it.
C14_MergeOnlyAbsentIdempotent ==
    /\ MergedOnce =>
          /\ DOMAIN pure.out.v = (DOMAIN pure.check.v) \cup DefaultKeys
          /\ \A key \in DOMAIN pure.check.v : pure.out.v[key] = pure.check.v[key]
          /\ \A key \in DefaultKeys \ (DOMAIN pure.check.v) : pure.out.v[key] = pure.default.v[key]
    /\ MergedTwice => pure.out2 = pure.out
C14_Witness ==
    /\ MergedTwice
    /\ DOMAIN pure.check.v = {"host", "tags"}
    /\ DefaultKeys = {"host", "type"}
    /\ pure.out2 = Dict([host |-> S("x"), tags |-> S("x"), type |-> S("y")])


\* validate_configuration_yaml applied on its own has returned
Validated == pure.op = "validate" /\ pure.done
NonEmptyString(check, key) == Has(check, key) /\ check.v[key].ty = "str" /\ check.v[key].v # <<>>

\* C15 (as claimed): validation accepts a document only if every declared check,
\* after default merging, has name, host and type present as non-empty strings.
C15_AcceptedOnlyNonEmpty ==
    (Validated /\ pure.out.ok) =>
        \A n \in 1..Len(Checks(pure.out.configuration)) :
            \A key \in {"name", "host", "type"} : NonEmptyString(Checks(pure.out.configuration)[n], key)

\* the message for an absent section.key (the model writes it without backticks)
MissingKeyMessage(key) ==
    "Configuration Error: Could not locate required " \o key[1] \o "." \o key[2] \o " tag"

\* C16: a document that validation accepts, with exactly one of gitops.type,
\* gitops.version, pingdom.tag, pingdom.teams, pingdom.integrations and
\* pingdom.checks taken out, is refused with the configuration error that names
\* the key taken out.
C16_MissingKeyNamed ==
    Validated =>
        /\ pure.document \in ValidDocuments => pure.out.ok
        /\ \A base \in ValidDocuments : \A key \in RequiredKeys :
              pure.document = Without(base, key)
              => ~pure.out.ok /\ pure.out.msg = MissingKeyMessage(key)
C16_Witness ==
    /\ Validated
    /\ pure.document = Without(Document(<<DeclaredShapes[2], DeclaredShapes[3]>>, DefaultShapes[2]),
                               <<"pingdom", "teams">>)
    /\ ~pure.out.ok
    /\ pure.out.msg = "Configuration Error: Could not locate required pingdom.teams tag"


\* the listed check is a host-candidate twice: by its host and by its hostname
TwiceCandidate(check, declared) ==
    /\ "host" \in DOMAIN check /\ check.host = Lower(Format(declared))
    /\ "hostname" \in DOMAIN check /\ check.hostname = Lower(Format(declared))

\* C17 (as claimed): find_matching_checks returns the candidates in directory
\* order, a remote check whose host and hostname both equal the normalized host
\* twice, and the reconciler issues one update call per occurrence (two updates
\* with the same id).
C17_OneUpdatePerOccurrence ==
    \A n \in 1..Len(matched) :
        LET m == matched[n]
            puts == CallsOf(m.decl, "PUT")
        IN /\ \A a, b \in 1..Len(m.result) : a < b => m.result[a].id <= m.result[b].id
           /\ \A a \in 1..Len(m.result) :
                 TwiceCandidate(m.result[a], m.host)
                 => Cardinality({b \in 1..Len(m.result) : m.result[b].id = m.result[a].id}) = 2
           /\ (/\ m.decl < i
               /\ \E a \in 1..Len(m.result) : TwiceCandidate(m.result[a], m.host))
              => /\ Len(puts) = Len(m.result)
                 /\ \A q \in 1..Len(puts) : puts[q].id = m.result[q].id


\* C18: a detail request that fails is the last remote call of the run: the run
\* ends at once with the exception of find_matching_checks, with no create or
\* update for the declared check being matched or for a later one, and the
\* aggregate error is not raised even when an earlier update set the error flag.
C18_DetailFailureAborts ==
    \A n \in 1..Len(trace) :
        (IsDetail(trace[n]) /\ Failed(trace[n]))
        => /\ n = Len(trace)
           /\ pc = "exit"
           /\ outcome = [exit |-> 3, raised |-> "find_matching_checks", msg |-> ""]
           /\ \A q \in 1..Len(trace) : IsWrite(trace[q]) => trace[q].decl < trace[n].decl
C18_Witness ==
    /\ DetailFailed
    /\ error
    /\ pc = "exit"
    /\ trace[Len(trace)].decl = 2
    /\ \E q \in 1..Len(trace) : trace[q].method = "PUT" /\ trace[q].decl = 1 /\ Failed(trace[q])


\* the remote check carries the reconciliation tag among the tags of its detail
Managed(r) ==
    /\ "tags" \in DOMAIN r
    /\ \E p \in 1..Len(r.tags) : r.tags[p].name = ReconciliationTag.v

\* C19: every update call targets the id of a listed remote check whose host or
\* hostname equals the lower-cased host of the declared check being processed
\* and whose detail tags include the reconciliation tag (so a remote check that
\* fails either condition for every declared check is never updated), and no
\* call is a DELETE.
C19_UpdatesOnlyManagedCandidates ==
    \A n \in 1..Len(trace) :
        /\ trace[n].method \in {"GET", "POST", "PUT"}
        /\ trace[n].method = "PUT" =>
              \E r \in 1..Len(remote) :
                  /\ remote[r].id = trace[n].id
                  /\ HostCandidate(remote[r], MergedDeclared(trace[n].decl).v["host"].v)
                  /\ Managed(remote[r])
\* a run that updated one remote check and left alone another one of the same
\* host that lacks the reconciliation tag
C19_Witness ==
    /\ pc = "exit"
    /\ \E n \in 1..Len(trace) : trace[n].method = "PUT"
    /\ \E r \in 1..Len(remote) :
          /\ ~Managed(remote[r])
          /\ \E d \in Declared : HostCandidate(remote[r], MergedDeclared(d).v["host"].v)
          /\ \A n \in 1..Len(trace) : trace[n].method = "PUT" => trace[n].id # remote[r].id


\* the service stored a check that the declared check d would match if listed
WouldMatch(c, d) ==
    /\ HostCandidate(c, MergedDeclared(d).v["host"].v)
    /\ \E p \in 1..Len(c.tags) : c.tags[p].name = ReconciliationTag.v
SameHost(d, e) ==
    Lower(Format(MergedDeclared(d).v["host"])) = Lower(Format(MergedDeclared(e).v["host"]))
NoCandidateFor(d) ==
    \A r \in 1..Len(remote) : ~HostCandidate(remote[r], MergedDeclared(d).v["host"].v)
Created(d) == \E n \in 1..Len(trace) : trace[n].method = "POST" /\ trace[n].decl = d
Updated(d) == \E n \in 1..Len(trace) : trace[n].method = "PUT" /\ trace[n].decl = d

\* C20: the host-candidates of every declared check come from the listing taken
\* before the first create of the run, so a check created earlier in the run is
\* never returned as a match; two declared checks of the same host, when the
\* directory held no check of that host, each issue a create and no update.
C20_MatchesFromFirstListing ==
    /\ \A q \in 1..Len(found) : \E r \in 1..Len(remote) : found[q] = Summary(remote[r])
    /\ \A n \in 1..Len(matched) : \A a \in 1..Len(matched[n].result) :
          \A c \in 1..Len(created) : matched[n].result[a].id # created[c].id
    /\ \A d, e \in Declared :
          (d < e /\ e < i /\ SameHost(d, e) /\ NoCandidateFor(d))
          => Created(d) /\ Created(e) /\ ~Updated(d) /\ ~Updated(e)
\* the first of two declared checks of one host was created and stored with the
\* reconciliation tag; the second was created too
C20_Witness ==
    /\ pc = "exit"
    /\ Len(Checks(document)) = 2
    /\ SameHost(1, 2) /\ NoCandidateFor(1)
    /\ Len(created) > 0 /\ created[1].id = Len(remote) + 1 /\ WouldMatch(created[1], 2)
    /\ \E n \in 1..Len(trace) : trace[n].method = "POST" /\ trace[n].decl = 1 /\ ~Failed(trace[n])
    /\ Created(2)


\* the second run has ended and each of its calls succeeded
SecondRunDone ==
    /\ round = 2
    /\ pc = "exit"
    /\ \A n \in 1..Len(trace) : ~Failed(trace[n])
LowerCaseHosts ==
    \A d \in Declared : Format(MergedDeclared(d).v["host"]) = Lower(Format(MergedDeclared(d).v["host"]))

\* C21 (as claimed): a second run of the same configuration, with declared hosts
\* in lower case, over what a first run of successful calls left on a service
\* that stores created checks as submitted, issues no create call and updates
\* every declared check.
C21_SecondRunOnlyUpdates ==
    (SecondRunDone /\ LowerCaseHosts) => \A d \in Declared : ~Created(d) /\ Updated(d)

====
